---- MODULE Spec2Model ----
(***************************************************************************)
(* Mixed payment ledger of the PDV: the table pdv_order_payments with its  *)
(* CHECK / foreign key, the server functions get_order_payment_total and   *)
(* is_order_fully_paid, the row trigger trg_update_order_payment_status,   *)
(* and the client hook useMixedPayment that writes and reads the ledger.   *)
(*                                                                         *)
(* Amounts are numeric(10,2); they are modelled as integers in centavos    *)
(* (4000 = 40.00).  A nullable SQL value is a set with at most one         *)
(* element: {} is NULL, {v} is the value v.                                *)
(*                                                                         *)
(* Every write runs in its own transaction (PostgREST / autocommit), at    *)
(* READ COMMITTED: a statement sees the committed rows and the rows of its *)
(* own transaction, never another transaction's uncommitted rows.  An      *)
(* UPDATE or DELETE holds the lock of the rows it wrote until its          *)
(* transaction commits, and a second writer of the same row waits for it.  *)
(* now() is the start time of the transaction; distinct transactions have  *)
(* distinct start times.  The text of an error message is not modelled:    *)
(* the error state holds the name of the failure.                          *)
(***************************************************************************)
EXTENDS Integers, FiniteSets, Sequences, TLC

\* ------------------------------------------------------------------ bounds

\* Transactions ever started (now() is the transaction's start time).
MaxClock == 2

\* Database sessions (one per client) that can have a transaction in flight.
Sessions == {"s1", "s2"}

\* Existing orders (rows of pdv_sales) and an order id with no row.
Orders == {"o1", "o2"}
GhostOrder == "o9"
OrderIds == Orders \cup {GhostOrder}

\* Amounts an UPDATE can set, in centavos.
Amounts == {-4000, 0, 4000, 6000}

\* total_amount of the existing orders, in centavos.
SalesTotal == [o \in Orders |-> IF o = "o1" THEN {10000} ELSE {4000}]

\* orderTotal arguments a caller of getMixedPaymentData can pass.
OrderTotalArgs == {4000, 10000}

\* ------------------------------------------------------------------- types

\* payment_type_enum
PaymentTypes == {"dinheiro", "pix", "cartao_credito", "cartao_debito", "voucher"}

\* payment_status_enum
PaymentStatuses == {"pending", "confirmed", "cancelled"}

\* The PaymentFormData a caller of addPaymentPartial can pass.
PaymentForms ==
  {[payment_type |-> "pix", amount |-> 4000],
   [payment_type |-> "dinheiro", amount |-> 6000],
   [payment_type |-> "pix", amount |-> 0],
   [payment_type |-> "dinheiro", amount |-> -4000]}

\* The events trg_update_order_payment_status is created for.
TriggerEvents == {"insert", "update"}

\* SQL COALESCE(v, d) on a nullable value.
COALESCE(v, d) == IF v = {} THEN d ELSE CHOOSE x \in v : TRUE

VARIABLES
  payments,   \* committed rows of pdv_order_payments
  sales,      \* committed rows of pdv_sales: total_amount, updated_at
  tx,         \* per session: the transaction in flight
  clock,      \* transactions started so far
  nextId,     \* next generated payment id
  loading,    \* per session: the hook's loading state
  error,      \* per session: the hook's error state ({} is null)
  ret         \* what the hook call that finished in the last step returned

vars == <<payments, sales, tx, clock, nextId, loading, error, ret>>

\* ------------------------------------------------------- server functions

RECURSIVE SumAmount(_)
\* SUM(amount) over a non-empty set of rows.
SumAmount(rows) ==
  IF rows = {} THEN 0
  ELSE LET r == CHOOSE x \in rows : TRUE
       IN r.amount + SumAmount(rows \ {r})

\* SQL SUM(amount): NULL over no rows.
SqlSum(rows) == IF rows = {} THEN {} ELSE {SumAmount(rows)}

\* Variant: the WHERE clause without its status filter.
get_order_payment_total_AnyStatus(table, order_uuid) ==
  COALESCE(SqlSum({r \in table : r.order_id = order_uuid}), 0)

\* get_order_payment_total(order_uuid) evaluated over the rows visible to
\* the caller.
get_order_payment_total(table, order_uuid) ==
  COALESCE(
    SqlSum({r \in table : r.order_id = order_uuid /\ r.status = "confirmed"}),
    0)

\* SELECT total_amount INTO order_total FROM pdv_sales WHERE id = order_uuid:
\* NULL when there is no such row.
SelectTotalAmount(order_uuid) ==
  IF order_uuid \in DOMAIN sales THEN sales[order_uuid].total_amount ELSE {}

\* Variant: > in place of >=.
is_order_fully_paid_Strict(table, order_uuid) ==
  LET order_total == SelectTotalAmount(order_uuid)
      payments_total == {get_order_payment_total(table, order_uuid)}
  IN COALESCE(payments_total, 0) > COALESCE(order_total, 0)

\* is_order_fully_paid(order_uuid) evaluated over the rows visible to the
\* caller.
is_order_fully_paid(table, order_uuid) ==
  LET order_total == SelectTotalAmount(order_uuid)
      payments_total == {get_order_payment_total(table, order_uuid)}
  IN COALESCE(payments_total, 0) >= COALESCE(order_total, 0)

\* ------------------------------------------------------ table constraints

\* Variant: CHECK (amount >= 0).
CheckAmount_NonNegative(row) == row.amount >= 0

\* amount numeric(10,2) NOT NULL CHECK (amount > 0)
CheckAmount(row) == row.amount > 0

\* pdv_order_payments_order_id_fkey: order_id references pdv_sales(id).
ForeignKey(row) == row.order_id \in DOMAIN sales

\* Variant: a table that also refuses a row taking the confirmed total
\* above the order total.
RowAccepted_CappedByOrderTotal(table, row) ==
  /\ CheckAmount(row)
  /\ ForeignKey(row)
  /\ get_order_payment_total(table, row.order_id)
       <= COALESCE(SelectTotalAmount(row.order_id), 0)

\* What the table checks of a new row version; `table` is the table as the
\* writing transaction sees it after the write (no constraint reads it).
RowAccepted(table, row) ==
  /\ CheckAmount(row)
  /\ ForeignKey(row)
  /\ row.payment_type \in PaymentTypes
  /\ row.status \in PaymentStatuses

\* ---------------------------------------------------------------- triggers

\* update_updated_at_column(), BEFORE UPDATE: NEW.updated_at = now().
update_updated_at_column(NEWROW, now) == [NEWROW EXCEPT !.updated_at = now]

\* Variant: the UPDATE without its IF.
update_order_payment_status_Always(table, NEWROW) == {NEWROW.order_id}

\* update_order_payment_status(), AFTER INSERT OR UPDATE, FOR EACH ROW: the
\* set of pdv_sales ids whose updated_at the function sets to now().
update_order_payment_status(table, NEWROW) ==
  IF is_order_fully_paid(table, NEWROW.order_id) THEN {NEWROW.order_id} ELSE {}

\* Variant: a trigger that also fires on DELETE and touches the order.
AfterRowTriggers_AlsoOnDelete(event, table, row) ==
  IF event = "delete"
  THEN {row.order_id}
  ELSE update_order_payment_status(table, row)

\* The row triggers fired after `event` on `row`.
AfterRowTriggers(event, table, row) ==
  IF event \in TriggerEvents
  THEN update_order_payment_status(table, row)
  ELSE {}

\* ------------------------------------------------------------ transactions

\* The last step finished no call of the hook.
NoReturn == [op |-> "none"]

Idle == [pc |-> "idle", op |-> "none", arg |-> 0, now |-> 0,
         old |-> {}, new |-> {}, touch |-> {}]

\* Variant: a statement that also sees the other sessions' uncommitted rows.
View_ReadUncommitted(t) ==
  (UNION {(payments \ tx[u].old) \cup tx[u].new : u \in Sessions})

\* The rows session t's transaction sees: the committed rows and its own
\* write.
View(t) == (payments \ tx[t].old) \cup tx[t].new

\* Another transaction holds the row lock of a payment row (it updated or
\* deleted the row and has not committed).
RowLocked(t, rows) ==
  \E u \in Sessions \ {t} : tx[u].old \cap rows # {}

\* Another transaction holds the row lock of one of these pdv_sales rows (its
\* trigger ran UPDATE pdv_sales and it has not committed).
SalesLocked(t, ids) ==
  \E u \in Sessions \ {t} : tx[u].pc = "commit" /\ tx[u].touch \cap ids # {}

\* A statement of session t's new transaction wrote `old` -> `new`; the row
\* triggers decided `touch`.
Begin(t, op, arg, old, new, touch) ==
  tx' = [tx EXCEPT ![t] =
           [pc |-> IF touch = {} THEN "commit" ELSE "touch",
            op |-> op, arg |-> arg, now |-> clock + 1,
            old |-> old, new |-> new, touch |-> touch]]

\* ------------------------------------------------------------ client hook

RECURSIVE SortByCreatedAt(_)
\* .order('created_at', { ascending: true })
SortByCreatedAt(rows) ==
  IF rows = {} THEN <<>>
  ELSE LET first == CHOOSE r \in rows :
                      \A q \in rows : r.created_at < q.created_at
                                      \/ (r.created_at = q.created_at /\ r.id <= q.id)
       IN <<first>> \o SortByCreatedAt(rows \ {first})

RECURSIVE ReduceAmount(_, _)
\* payments.reduce((sum, payment) => sum + payment.amount, sum)
ReduceAmount(list, sum) ==
  IF list = <<>> THEN sum
  ELSE ReduceAmount(Tail(list), sum + Head(list).amount)

Max(a, b) == IF a >= b THEN a ELSE b

\* Variant: the remaining amount without Math.max(0, ...).
MixedPaymentData_NoClamp(orderId, orderTotal, list) ==
  LET totalPaid == ReduceAmount(list, 0)
  IN [op |-> "getMixedPaymentData",
      order_id |-> orderId, order_total |-> orderTotal, payments |-> list,
      total_paid |-> totalPaid,
      remaining_amount |-> orderTotal - totalPaid,
      is_fully_paid |-> totalPaid >= orderTotal]

\* What getMixedPaymentData computes from the fetched list.
MixedPaymentData(orderId, orderTotal, list) ==
  LET totalPaid == ReduceAmount(list, 0)
      remainingAmount == Max(0, orderTotal - totalPaid)
      isFullyPaid == totalPaid >= orderTotal
  IN [op |-> "getMixedPaymentData",
      order_id |-> orderId, order_total |-> orderTotal, payments |-> list,
      total_paid |-> totalPaid,
      remaining_amount |-> remainingAmount,
      is_fully_paid |-> isFullyPaid]

\* Variant: >= in place of > in the limit test.
validatePaymentAmount_OffByOne(amount, currentTotal, orderTotal) ==
  IF amount <= 0
  THEN [isValid |-> FALSE, message |-> <<"Valor deve ser maior que zero">>]
  ELSE IF currentTotal + amount >= orderTotal
  THEN [isValid |-> FALSE,
        message |-> <<"Valor maximo permitido", orderTotal - currentTotal>>]
  ELSE [isValid |-> TRUE, message |-> <<>>]

\* validatePaymentAmount(amount, currentTotal, orderTotal); message is <<>>
\* when the code returns none.
validatePaymentAmount(amount, currentTotal, orderTotal) ==
  IF amount <= 0
  THEN [isValid |-> FALSE, message |-> <<"Valor deve ser maior que zero">>]
  ELSE IF currentTotal + amount > orderTotal
  THEN LET maxAmount == orderTotal - currentTotal
       IN [isValid |-> FALSE,
           message |-> <<"Valor maximo permitido", maxAmount>>]
  ELSE [isValid |-> TRUE, message |-> <<>>]

\* -------------------------------------------------------------------- Init

Init ==
  /\ payments = {}
  /\ sales = [o \in Orders |-> [total_amount |-> SalesTotal[o], updated_at |-> 0]]
  /\ tx = [t \in Sessions |-> Idle]
  /\ clock = 0
  /\ nextId = 1
  /\ loading = [t \in Sessions |-> FALSE]
  /\ error = [t \in Sessions |-> {}]
  /\ ret = NoReturn

\* ----------------------------------------------------------------- actions

\* addPaymentPartial(orderId, paymentData) up to the end of its INSERT
\* statement: the row is written with status 'confirmed', the constraints
\* are checked and the AFTER INSERT trigger has decided.  A rejected insert
\* rolls the transaction back and the hook returns null with the error set.
AddPaymentPartial(t, orderId, paymentData) ==
  /\ tx[t].pc = "idle"
  /\ clock < MaxClock
  /\ clock' = clock + 1
  /\ LET row == [id |-> nextId, order_id |-> orderId,
                 payment_type |-> paymentData.payment_type,
                 amount |-> paymentData.amount, status |-> "confirmed",
                 created_at |-> clock + 1, updated_at |-> clock + 1]
         table == View(t) \cup {row}
     IN IF RowAccepted(table, row)
        THEN /\ Begin(t, "addPaymentPartial", 0, {}, {row},
                      AfterRowTriggers("insert", table, row))
             /\ nextId' = nextId + 1
             /\ loading' = [loading EXCEPT ![t] = TRUE]
             /\ error' = [error EXCEPT ![t] = {}]
             /\ ret' = NoReturn
        ELSE /\ loading' = [loading EXCEPT ![t] = FALSE]
             /\ error' = [error EXCEPT ![t] = {"Erro ao adicionar pagamento"}]
             /\ ret' = [op |-> "addPaymentPartial", orderId |-> orderId,
                        amount |-> paymentData.amount, data |-> {}]
             /\ UNCHANGED <<tx, nextId>>
  /\ UNCHANGED <<payments, sales>>

\* removePaymentPartial(paymentId) up to the end of its DELETE statement.  The
\* statement waits while another transaction holds the row's lock; a delete
\* of no row succeeds.
RemovePaymentPartial(t, paymentId) ==
  /\ tx[t].pc = "idle"
  /\ clock < MaxClock
  /\ LET old == {r \in View(t) : r.id = paymentId}
         table == View(t) \ old
     IN /\ ~RowLocked(t, old)
        /\ Begin(t, "removePaymentPartial", paymentId, old, {},
                 UNION {AfterRowTriggers("delete", table, r) : r \in old})
  /\ clock' = clock + 1
  /\ loading' = [loading EXCEPT ![t] = TRUE]
  /\ error' = [error EXCEPT ![t] = {}]
  /\ ret' = NoReturn
  /\ UNCHANGED <<payments, sales, nextId>>

\* UPDATE pdv_order_payments SET <field> = <value> WHERE id = <id>, issued by
\* a session directly (the policy allows all operations to public; the hook
\* has no update).  The BEFORE UPDATE trigger stamps updated_at, the
\* constraints are checked, the AFTER UPDATE trigger decides.  A rejected
\* update rolls the transaction back.
UpdatePayment(t, r, NEWROW) ==
  /\ tx[t].pc = "idle"
  /\ clock < MaxClock
  /\ r \in View(t)
  /\ ~RowLocked(t, {r})
  /\ clock' = clock + 1
  /\ LET stamped == update_updated_at_column(NEWROW, clock + 1)
         table == (View(t) \ {r}) \cup {stamped}
     IN IF RowAccepted(table, stamped)
        THEN Begin(t, "update", r.id, {r}, {stamped},
                   AfterRowTriggers("update", table, stamped))
        ELSE UNCHANGED tx
  /\ ret' = NoReturn
  /\ UNCHANGED <<payments, sales, nextId, loading, error>>

UpdateStatus(t) ==
  \E r \in payments, v \in PaymentStatuses :
    UpdatePayment(t, r, [r EXCEPT !.status = v])

UpdateAmount(t) ==
  \E r \in payments, v \in Amounts :
    UpdatePayment(t, r, [r EXCEPT !.amount = v])

UpdateOrderId(t) ==
  \E r \in payments, v \in OrderIds :
    UpdatePayment(t, r, [r EXCEPT !.order_id = v])

\* The trigger's UPDATE pdv_sales SET updated_at = now() WHERE id = ...: it
\* waits while another transaction holds the lock of that pdv_sales row.
TxTouch(t) ==
  /\ tx[t].pc = "touch"
  /\ ~SalesLocked(t, tx[t].touch)
  /\ tx' = [tx EXCEPT ![t].pc = "commit"]
  /\ ret' = NoReturn
  /\ UNCHANGED <<payments, sales, clock, nextId, loading, error>>

\* COMMIT: the transaction's rows and its UPDATE of pdv_sales become visible,
\* and the hook's call returns.
TxCommit(t) ==
  /\ tx[t].pc = "commit"
  /\ payments' = (payments \ tx[t].old) \cup tx[t].new
  /\ sales' = [o \in DOMAIN sales |->
                 IF o \in tx[t].touch
                 THEN [sales[o] EXCEPT !.updated_at = tx[t].now]
                 ELSE sales[o]]
  /\ tx' = [tx EXCEPT ![t] = Idle]
  /\ IF tx[t].op = "addPaymentPartial"
     THEN /\ loading' = [loading EXCEPT ![t] = FALSE]
          /\ ret' = LET row == CHOOSE x \in tx[t].new : TRUE
                    IN [op |-> "addPaymentPartial", orderId |-> row.order_id,
                        amount |-> row.amount, data |-> {row}]
     ELSE IF tx[t].op = "removePaymentPartial"
     THEN /\ loading' = [loading EXCEPT ![t] = FALSE]
          /\ ret' = [op |-> "removePaymentPartial",
                     paymentId |-> tx[t].arg, value |-> TRUE]
     ELSE /\ ret' = NoReturn
          /\ UNCHANGED loading
  /\ UNCHANGED <<clock, nextId, error>>

\* getOrderPayments(orderId): the committed rows of the order by created_at,
\* or [] with the error set when the fetch fails.
getOrderPayments(orderId, fetchOk) ==
  IF fetchOk
  THEN SortByCreatedAt({r \in payments : r.order_id = orderId})
  ELSE <<>>

\* getMixedPaymentData(orderId, orderTotal)
GetMixedPaymentData(t, orderId, orderTotal, fetchOk) ==
  /\ error' = [error EXCEPT ![t] =
                 IF fetchOk THEN {} ELSE {"Erro ao buscar pagamentos"}]
  /\ ret' = MixedPaymentData(orderId, orderTotal,
                             getOrderPayments(orderId, fetchOk))
  /\ UNCHANGED <<payments, sales, tx, clock, nextId, loading>>

\* validatePaymentAmount(amount, currentTotal, orderTotal)
ValidatePaymentAmount(amount, currentTotal, orderTotal) ==
  /\ ret' = [op |-> "validatePaymentAmount", amount |-> amount,
             currentTotal |-> currentTotal, orderTotal |-> orderTotal,
             result |-> validatePaymentAmount(amount, currentTotal, orderTotal)]
  /\ UNCHANGED <<payments, sales, tx, clock, nextId, loading, error>>

\* isOrderFullyPaid(orderId): the rpc's answer, false when the rpc fails.
IsOrderFullyPaid(orderId, rpcOk) ==
  /\ ret' = [op |-> "isOrderFullyPaid", orderId |-> orderId,
             value |-> IF rpcOk THEN is_order_fully_paid(payments, orderId)
                       ELSE FALSE]
  /\ UNCHANGED <<payments, sales, tx, clock, nextId, loading, error>>

Next ==
  \/ \E t \in Sessions, o \in OrderIds, d \in PaymentForms :
       AddPaymentPartial(t, o, d)
  \/ \E t \in Sessions, id \in 0 .. (nextId - 1) : RemovePaymentPartial(t, id)
  \/ \E t \in Sessions : UpdateStatus(t)
  \/ \E t \in Sessions : UpdateAmount(t)
  \/ \E t \in Sessions : UpdateOrderId(t)
  \/ \E t \in Sessions : TxTouch(t)
  \/ \E t \in Sessions : TxCommit(t)
  \/ \E t \in Sessions, o \in Orders, T \in OrderTotalArgs, ok \in BOOLEAN :
       GetMixedPaymentData(t, o, T, ok)
  \/ \E o \in OrderIds, ok \in BOOLEAN : IsOrderFullyPaid(o, ok)

Spec == Init /\ [][Next]_vars

\* validatePaymentAmount is a pure function of its arguments: its calls
\* alone, over a wider range of arguments.
ValidateArgs == {-4000, 0, 1, 4000, 6000, 10000}

NextValidate ==
  \E a \in ValidateArgs, c \in ValidateArgs, T \in ValidateArgs :
    ValidatePaymentAmount(a, c, T)

SpecValidate == Init /\ [][NextValidate]_vars

\* ------------------------------------------------------------------ claims

RECURSIVE ConfirmedTotalUpTo(_, _, _)
\* The confirmed amounts of order o among the rows with id 1 .. n, added up
\* row by row.
ConfirmedTotalUpTo(table, o, n) ==
  IF n = 0 THEN 0
  ELSE LET hit == {r \in table : r.id = n /\ r.order_id = o
                                 /\ r.status = "confirmed"}
       IN (IF hit = {} THEN 0 ELSE (CHOOSE r \in hit : TRUE).amount)
          + ConfirmedTotalUpTo(table, o, n - 1)

ConfirmedTotal(table, o) == ConfirmedTotalUpTo(table, o, nextId)

\* The order's total_amount, 0 when the row or the value is missing.
TotalOrZero(o) ==
  IF o \in DOMAIN sales /\ sales[o].total_amount # {}
  THEN CHOOSE v \in sales[o].total_amount : TRUE
  ELSE 0

\* The tables a caller can see: the committed one and each session's view.
Tables == {payments} \cup {View(t) : t \in Sessions}

\* The committed table with session t's write as of the next state.
OwnWrite(t) == (payments \ tx'[t].old) \cup tx'[t].new

StatementStep(t) == tx[t].pc = "idle" /\ tx'[t].pc # "idle"
CommitStep(t) == tx[t].pc = "commit" /\ tx'[t].pc = "idle"

Range(list) == {list[i] : i \in 1 .. Len(list)}

\* C1: in every reachable state, for every order id, get_order_payment_total
\* is the sum of the amounts of that order's confirmed rows (0 when it has
\* none); pending and cancelled rows and other orders' rows add nothing.
C1_PaymentTotalIsConfirmedSum ==
  \A table \in Tables, o \in OrderIds :
    /\ get_order_payment_total(table, o) = ConfirmedTotal(table, o)
    /\ (~ \E r \in table : r.order_id = o /\ r.status = "confirmed")
         => get_order_payment_total(table, o) = 0

\* C1 witness: an order whose only rows are not confirmed has total 0 after
\* an insert and an update.
C1_Witness ==
  \E r \in payments :
    /\ r.status # "confirmed"
    /\ tx = [t \in Sessions |-> Idle]
    /\ get_order_payment_total(payments, r.order_id) = 0

\* C2: the total_paid that getMixedPaymentData returns equals what
\* get_order_payment_total returns over the rows it fetched (confirmed rows
\* only).
C2_TotalPaidIsConfirmedOnly ==
  ret.op = "getMixedPaymentData"
    => ret.total_paid
         = get_order_payment_total(Range(ret.payments), ret.order_id)

\* C3: for every order id and every table, is_order_fully_paid is true
\* exactly when the confirmed total is at least the order's total_amount,
\* taken as 0 when the order row or its total is missing.
C3_FullyPaidIffTotalCovered ==
  \A table \in Tables, o \in OrderIds :
    is_order_fully_paid(table, o)
      <=> (ConfirmedTotal(table, o) >= TotalOrZero(o))

\* C3 witness: an overpaid order is fully paid, and so is a missing order.
C3_Witness ==
  \E o \in Orders :
    /\ ConfirmedTotal(payments, o) > TotalOrZero(o)
    /\ is_order_fully_paid(payments, o)
    /\ is_order_fully_paid(payments, GhostOrder)

\* C4, the trigger's decision: the statement of an insert or update decides
\* to touch the row's order exactly when that order is fully paid over the
\* committed rows with the transaction's own write.
C4_Decision ==
  \A t \in Sessions :
    (StatementStep(t) /\ tx'[t].op \in {"addPaymentPartial", "update"})
      => \A row \in tx'[t].new :
           tx'[t].touch
             = IF ConfirmedTotal(OwnWrite(t), row.order_id)
                    >= TotalOrZero(row.order_id)
               THEN {row.order_id} ELSE {}

\* C4, the effect: the commit publishes the row and the touch together; a
\* touched order changes in updated_at alone, which becomes the
\* transaction's now() and differs from the old value; every other order
\* row is unchanged.
C4_Effect ==
  \A t \in Sessions :
    CommitStep(t)
      => /\ payments' = (payments \ tx[t].old) \cup tx[t].new
         /\ \A o \in Orders :
              IF o \in tx[t].touch
              THEN /\ sales'[o].total_amount = sales[o].total_amount
                   /\ sales'[o].updated_at = tx[t].now
                   /\ sales'[o].updated_at # sales[o].updated_at
              ELSE sales'[o] = sales[o]

\* C4, the frame: pdv_sales changes only at such a commit.
C4_Frame ==
  sales' # sales => \E t \in Sessions : CommitStep(t) /\ tx[t].touch # {}

\* C4, the scenario's first half: order total 100.00 and the single payment
\* {pix, 40.00}: paid total 40, not fully paid, order untouched.
C4_ScenarioFirst ==
  (/\ clock = 1
   /\ \E r \in payments : /\ payments = {r}
                          /\ r.order_id = "o1" /\ r.amount = 4000)
    => /\ get_order_payment_total(payments, "o1") = 4000
       /\ ~is_order_fully_paid(payments, "o1")
       /\ sales["o1"].updated_at = 0

\* C4: every insert or update of a payment row re-evaluates
\* is_order_fully_paid for the row's order in its transaction and touches
\* the order's updated_at if and only if the order is then fully paid; an
\* order that is not fully paid is left unchanged and a touch changes
\* nothing but the timestamp.
C4_TriggerTouchesIffFullyPaid ==
  /\ []C4_ScenarioFirst
  /\ [][C4_Decision /\ C4_Effect /\ C4_Frame]_vars

\* C4 witness: the scenario's end: {pix, 40.00} then {dinheiro, 60.00} on the
\* order of total 100.00: paid total 100, fully paid, updated_at changed.
C4_Witness ==
  /\ clock = 2
  /\ \E r1, r2 \in payments :
       /\ payments = {r1, r2}
       /\ r1.order_id = "o1" /\ r1.payment_type = "pix" /\ r1.amount = 4000
       /\ r2.order_id = "o1" /\ r2.payment_type = "dinheiro" /\ r2.amount = 6000
       /\ r1.created_at < r2.created_at
       /\ sales["o1"].updated_at = r2.created_at
  /\ get_order_payment_total(payments, "o1") = 10000
  /\ is_order_fully_paid(payments, "o1")
  /\ sales["o1"].updated_at # 0

\* C5, the state: every stored or written row has amount > 0.
C5_AmountsPositive ==
  \A r \in payments \cup UNION {tx[t].new : t \in Sessions} : r.amount > 0

\* C5, the rejection: addPaymentPartial with amount <= 0 returns null, sets
\* the error, and leaves the table, the orders and the transactions as they
\* were.
C5_Rejection ==
  (ret'.op = "addPaymentPartial" /\ ret'.amount <= 0)
    => /\ ret'.data = {}
       /\ payments' = payments /\ sales' = sales /\ tx' = tx
       /\ \E t \in Sessions :
            /\ error'[t] = {"Erro ao adicionar pagamento"}
            /\ loading'[t] = FALSE

\* C5, a rejected statement (the transaction began and is gone within the
\* step) leaves the table and the orders as they were.
C5_RolledBack ==
  (clock' # clock /\ tx' = tx) => payments' = payments /\ sales' = sales

\* C5: an insert or update with amount <= 0 is rejected and changes neither
\* the table nor the order; every stored row has amount > 0;
\* addPaymentPartial then returns null with the error set.
C5_NonPositiveAmountRejected ==
  /\ []C5_AmountsPositive
  /\ [][C5_Rejection /\ C5_RolledBack]_vars

\* C5 witness: addPaymentPartial with amount <= 0 has just returned null with
\* the error set, a row being stored.
C5_Witness ==
  /\ ret.op = "addPaymentPartial" /\ ret.amount <= 0 /\ ret.data = {}
  /\ \E t \in Sessions : error[t] # {}
  /\ payments # {}

\* C6: validatePaymentAmount is invalid when amount <= 0, invalid with the
\* maximum-allowed message when currentTotal + amount > orderTotal, and
\* valid otherwise.
C6_ValidateExactly ==
  ret.op = "validatePaymentAmount"
    => /\ ret.result.isValid
            <=> (ret.amount > 0 /\ ret.currentTotal + ret.amount <= ret.orderTotal)
       /\ (ret.amount > 0 /\ ret.currentTotal + ret.amount > ret.orderTotal)
            => ret.result.message
                 = <<"Valor maximo permitido", ret.orderTotal - ret.currentTotal>>
       /\ ret.result.isValid => ret.result.message = <<>>

\* C6 witness: an amount that reaches the order total exactly is valid.
C6_Witness ==
  /\ ret.op = "validatePaymentAmount"
  /\ ret.amount > 0
  /\ ret.currentTotal > 0
  /\ ret.currentTotal + ret.amount = ret.orderTotal
  /\ ret.result.isValid

\* C7: getMixedPaymentData reports remaining_amount = max(0, T - total_paid),
\* never negative, 0 exactly when is_fully_paid, and is_fully_paid exactly
\* when total_paid >= T.
C7_RemainingClamped ==
  ret.op = "getMixedPaymentData"
    => /\ ret.remaining_amount
            = (IF ret.order_total - ret.total_paid > 0
               THEN ret.order_total - ret.total_paid ELSE 0)
       /\ ret.remaining_amount >= 0
       /\ (ret.remaining_amount = 0) <=> ret.is_fully_paid
       /\ ret.is_fully_paid <=> (ret.total_paid >= ret.order_total)

\* C7 witness: more paid than the order total: remaining 0, fully paid.
C7_Witness ==
  /\ ret.op = "getMixedPaymentData"
  /\ ret.total_paid > ret.order_total
  /\ ret.remaining_amount = 0
  /\ ret.is_fully_paid

\* C8, the statement: a delete fires no trigger.
C8_NoTrigger ==
  \A t \in Sessions :
    (StatementStep(t) /\ tx'[t].op = "removePaymentPartial")
      => tx'[t].touch = {} /\ tx'[t].new = {}

\* C8, the commit: the order rows are unchanged and each order's paid total
\* drops by exactly the deleted row's amount if it was confirmed.
C8_Commit ==
  \A t \in Sessions :
    (CommitStep(t) /\ tx[t].op = "removePaymentPartial")
      => /\ sales' = sales
         /\ ret'.op = "removePaymentPartial" /\ ret'.value = TRUE
         /\ payments' = payments \ tx[t].old
         /\ \A o \in Orders :
              get_order_payment_total(payments', o)
                = get_order_payment_total(payments, o)
                  - ConfirmedTotal(tx[t].old, o)

\* C8: removePaymentPartial reduces the paid total by the deleted confirmed
\* payment's amount and fires no trigger: the order row, its touched
\* updated_at included, is unchanged by the delete.
C8_DeleteLeavesOrder == [][C8_NoTrigger /\ C8_Commit]_vars

\* C8 witness: the delete has just returned; the order it took the payment
\* from was touched when it became fully paid and is no longer fully paid.
C8_Witness ==
  /\ ret.op = "removePaymentPartial"
  /\ \E o \in Orders :
       /\ sales[o].updated_at # 0
       /\ ~is_order_fully_paid(payments, o)
       /\ get_order_payment_total(payments, o) = 0

\* Session t's insert has run its trigger and waits for the pdv_sales row
\* lock that another session's insert holds.
InsertWaits(t) ==
  /\ tx[t].op = "addPaymentPartial"
  /\ tx[t].pc = "touch"
  /\ \E u \in Sessions \ {t} :
       /\ tx[u].op = "addPaymentPartial"
       /\ tx[u].pc = "commit"
       /\ tx[u].touch \cap tx[t].touch # {}

\* C9 as stated: of two inserts for the same order that run concurrently,
\* neither is ever blocked by the other.
C9_NeverBlocked == \A t \in Sessions : ~InsertWaits(t)

\* C9, visibility: an insert's trigger decides over the committed rows and
\* its own row, whatever the other sessions have in flight.
C9_Visibility ==
  \A t \in Sessions :
    (StatementStep(t) /\ tx'[t].op = "addPaymentPartial")
      => \A row \in tx'[t].new :
           (tx'[t].touch # {})
             <=> (ConfirmedTotal(payments \cup {row}, row.order_id)
                    >= TotalOrZero(row.order_id))

\* C9, no rejection: an insert is rejected only for its own amount or a
\* missing order, never for what another session has in flight.
C9_NotRejected ==
  \A t \in Sessions, o \in Orders, d \in PaymentForms :
    (tx[t].pc = "idle" /\ clock < MaxClock /\ d.amount > 0)
      => ENABLED (AddPaymentPartial(t, o, d) /\ tx'[t].pc # "idle")

\* C9, waiting: an insert waits for another only when both triggers decided
\* "fully paid" for the same order; one that decided "not yet fully paid"
\* goes straight to its commit.
C9_WaitsOnlyToTouch ==
  \A t \in Sessions :
    /\ InsertWaits(t) => tx[t].touch # {}
    /\ (tx[t].op = "addPaymentPartial" /\ tx[t].touch = {})
         => tx[t].pc = "commit" /\ ENABLED TxCommit(t)

\* C9, amended: concurrent inserts for the same order are never rejected
\* because of each other and wait for each other only when both triggers
\* update the order row; each trigger sees the confirmed total without the
\* other's uncommitted row, so both can decide "not yet fully paid" and both
\* commit with the order's updated_at untouched.
C9_ConcurrentInserts ==
  /\ [](C9_NotRejected /\ C9_WaitsOnlyToTouch)
  /\ [][C9_Visibility]_vars

\* C9 witness: two inserts, both committed, cover the order total and the
\* order's updated_at was never touched.
C9_Witness ==
  /\ clock = 2 /\ nextId = 3
  /\ tx = [t \in Sessions |-> Idle]
  /\ \E o \in Orders :
       /\ Cardinality({r \in payments : r.order_id = o}) = 2
       /\ get_order_payment_total(payments, o) >= TotalOrZero(o)
       /\ is_order_fully_paid(payments, o)
       /\ sales[o].updated_at = 0

\* C10: the server accepts every insert with amount > 0 on an existing
\* order, also one that validatePaymentAmount rejects against the committed
\* confirmed total; an order whose confirmed total exceeds its total_amount
\* counts as fully paid, and getMixedPaymentData reports it fully paid with
\* remaining 0.
C10_OverpaymentAccepted ==
  /\ (ret.op = "addPaymentPartial" /\ ret.amount > 0 /\ ret.orderId \in Orders)
       => /\ ret.data # {}
          /\ ret.data \subseteq payments
  /\ \A o \in Orders :
       get_order_payment_total(payments, o) > TotalOrZero(o)
         => is_order_fully_paid(payments, o)
  /\ (ret.op = "getMixedPaymentData" /\ ret.total_paid > ret.order_total)
       => ret.remaining_amount = 0 /\ ret.is_fully_paid

\* C10 witness: addPaymentPartial has just returned the row of an insert
\* that validatePaymentAmount rejects, and the order's confirmed total
\* exceeds its total_amount.
C10_Witness ==
  /\ ret.op = "addPaymentPartial" /\ ret.data # {}
  /\ ret.orderId \in Orders
  /\ get_order_payment_total(payments, ret.orderId) > TotalOrZero(ret.orderId)
  /\ is_order_fully_paid(payments, ret.orderId)
  /\ ~validatePaymentAmount(
         ret.amount,
         get_order_payment_total(payments \ ret.data, ret.orderId),
         TotalOrZero(ret.orderId)).isValid

====
